---- MODULE Spec2Model ----
(***************************************************************************)
(* audiobook_prepper: path resolution, batch tag editing, chapter          *)
(* metadata generation and concatenation (audiobook_prepper/helper.py,     *)
(* audiobook_prepper/cli.py).                                              *)
(*                                                                         *)
(* Strings are sequences of character codes, so that sorted() is the       *)
(* lexicographic order on code points, glob matching works on characters   *)
(* and str(number) produces decimal digits.                                *)
(***************************************************************************)
EXTENDS Integers, Sequences, FiniteSets, TLC

VARIABLES
    args,          \* the path arguments of the invocation (tuple of strings)
    tags0,         \* the tag container of every file before the command
    tags,          \* the tag container of every file on disk (a dict per file)
    dur,           \* duration in ms of every file whose audio stream was read
    cmd,           \* the invoked command, "none" before the invocation
    tag,           \* tag key a batch command writes
    value,         \* value a change-* command writes
    start,         \* --start of number / chapter-number
    naming_scheme, \* naming scheme of chapter-number
    bitrate,       \* --bitrate of combine-files, 0 when not given (None)
    files,         \* the resolved file list (result of parse_paths)
    idx,           \* 1-based position of the loop over files
    pc,            \* position of the command
    exit_code,     \* process exit status "0" or "1", "none" while running
    err,           \* the exception that ended the command, "none" otherwise
    reported,      \* files named in an error message printed so far
    failed,        \* files on which a tag or audio I/O error occurred
    playhead,      \* generate_ffmetadata: running offset
    chapters,      \* generate_ffmetadata: chapter blocks appended so far
    genPasses,     \* number of completed generate_ffmetadata calls
    files_tmp,     \* transient manifest document: status and content
    metadata_tmp,  \* transient metadata document: status and content
    encoderCalls   \* sequence of encoder invocations (subprocess.run)

vars == <<args, tags0, tags, dur, cmd, tag, value, start, naming_scheme, bitrate,
          files, idx, pc, exit_code, err, reported, failed, playhead, chapters,
          genPasses, files_tmp, metadata_tmp, encoderCalls>>

----------------------------------------------------------------------------
(* Bounds *)

MaxArgs == 2        \* longest path argument list
MaxDur == 2         \* longest file, in seconds

\* Inputs of the commands
StartValues == {1, 9}
TitleValue == <<84>>                    \* "T", a title already on disk
OtherTitle == <<85>>                    \* "U", another title already on disk
AlbumValue == <<65>>                    \* "A", an album already on disk
NewValue == <<86>>                      \* "V", the value of a change-* command
UserTags == {"album"}                   \* tag keys given to change-tag
Schemes == {<<67, 37, 110>>}            \* "C%n"
Bitrates == {0, 64}                     \* --bitrate: not given (None), 64
Durations == {1000 * k : k \in 1..MaxDur}

(* Characters *)

Star == 42          \* "*"
QMark == 63         \* "?"

\* The files of the working directory: "a", "ab", "b".
Files == {<<97>>, <<97, 98>>, <<98>>}

\* Path arguments: literal paths "a", "b" and patterns "a*", "?", "c*".
ArgStrings == {<<97>>, <<98>>, <<97, Star>>, <<QMark>>, <<99, Star>>}

ArgLists == UNION {[1..n -> ArgStrings] : n \in 0..MaxArgs}

----------------------------------------------------------------------------
(* Strings *)

RECURSIVE LexLess(_, _)
\* s < t for Python strings
LexLess(s, t) ==
    IF s = <<>> THEN t # <<>>
    ELSE IF t = <<>> THEN FALSE
    ELSE IF Head(s) < Head(t) THEN TRUE
    ELSE IF Head(s) > Head(t) THEN FALSE
    ELSE LexLess(Tail(s), Tail(t))

RECURSIVE Digits(_)
Digits(n) == IF n < 10 THEN <<48 + n>> ELSE Digits(n \div 10) \o <<48 + (n % 10)>>

\* str(number)
IntToStr(n) == IF n < 0 THEN <<45>> \o Digits(-n) ELSE Digits(n)

StartsWith(s, p) == Len(s) >= Len(p) /\ SubSeq(s, 1, Len(p)) = p

RECURSIVE Replace(_, _, _)
\* s.replace(old, new) for a non-empty old
Replace(s, old, new) ==
    IF s = <<>> THEN <<>>
    ELSE IF StartsWith(s, old)
         THEN new \o Replace(SubSeq(s, Len(old) + 1, Len(s)), old, new)
         ELSE <<Head(s)>> \o Replace(Tail(s), old, new)

ListToSet(list) == {list[i] : i \in DOMAIN list}

RECURSIVE AnyOrder(_)
\* a list of the elements of S in an order the caller may not rely on
AnyOrder(S) ==
    IF S = {} THEN <<>>
    ELSE LET x == CHOOSE y \in S : TRUE IN <<x>> \o AnyOrder(S \ {x})

----------------------------------------------------------------------------
(* parse_paths *)

RECURSIVE Match(_, _)
\* fnmatch of a name against a pattern with * and ?
Match(pat, name) ==
    IF pat = <<>> THEN name = <<>>
    ELSE IF Head(pat) = Star
         THEN Match(Tail(pat), name) \/ (name # <<>> /\ Match(pat, Tail(name)))
         ELSE /\ name # <<>>
              /\ (Head(pat) = QMark \/ Head(pat) = Head(name))
              /\ Match(Tail(pat), Tail(name))

\* glob.glob(pattern): the existing files that match, in directory order
glob(pattern) == AnyOrder({f \in Files : Match(pattern, f)})

\* "*" in path or "?" in path
HasWildcard(path) == \E i \in DOMAIN path : path[i] = Star \/ path[i] = QMark

ExpandEntryNoLiteral(path) == IF HasWildcard(path) THEN glob(path) ELSE <<>>

\* body of the loop over path_list: files.extend(glob) or files.append(path)
ExpandEntry(path) == IF HasWildcard(path) THEN glob(path) ELSE <<path>>

RECURSIVE ExpandAll(_)
ExpandAll(path_list) ==
    IF path_list = <<>> THEN <<>>
    ELSE ExpandEntry(Head(path_list)) \o ExpandAll(Tail(path_list))

RECURSIVE sorted(_)
\* sorted(list(S)) of a set of strings
sorted(S) ==
    IF S = {} THEN <<>>
    ELSE LET m == CHOOSE x \in S : \A y \in S : x = y \/ LexLess(x, y)
         IN <<m>> \o sorted(S \ {m})

WildcardEntries(path_list) == {i \in DOMAIN path_list : HasWildcard(path_list[i])}

\* the single-pattern branch taken whenever exactly one entry has a wildcard
CollectFilesSinglePattern(path_list) ==
    IF Cardinality(WildcardEntries(path_list)) = 1
    THEN glob(path_list[CHOOSE i \in WildcardEntries(path_list) : TRUE])
    ELSE ExpandAll(path_list)

\* the list `files` before sorting
CollectFiles(path_list) ==
    IF Len(path_list) = 1 /\ HasWildcard(path_list[1])
    THEN glob(path_list[1])
    ELSE ExpandAll(path_list)

\* parse_paths(paths) for a non-empty paths
parse_paths(paths) == sorted(ListToSet(CollectFiles(paths)))

----------------------------------------------------------------------------
(* Tag containers: a dict from tag key to value; a file without an ID3      *)
(* header has the empty dict.                                               *)

EmptyDict == [k \in {} |-> <<>>]

SetItem(dict, key, val) ==
    [k \in DOMAIN dict \cup {key} |-> IF k = key THEN val ELSE dict[k]]

InitDicts ==
    {EmptyDict, [k \in {"album"} |-> AlbumValue]}
        \cup {[k \in {"title"} |-> t] : t \in {TitleValue, OtherTitle}}

\* EasyID3(file) raises ID3NoHeaderError
NoHeader(file) == DOMAIN tags[file] = {}

NoDoc == [status |-> "absent", content |-> <<>>]

CloseDocKeep(doc) == doc

\* leaving the `with` block deletes a transient document that was created
CloseDoc(doc) == IF doc.status = "open" THEN [doc EXCEPT !.status = "deleted"] ELSE doc

Init ==
    /\ args \in ArgLists
    /\ tags0 \in [Files -> InitDicts]
    /\ tags = tags0
    /\ dur = EmptyDict
    /\ cmd = "none"
    /\ tag = ""
    /\ value = <<>>
    /\ start = 1
    /\ naming_scheme = <<>>
    /\ bitrate = 0
    /\ files = <<>>
    /\ idx = 1
    /\ pc = "idle"
    /\ exit_code = "none"
    /\ err = "none"
    /\ reported = {}
    /\ failed = {}
    /\ playhead = 0
    /\ chapters = <<>>
    /\ genPasses = 0
    /\ files_tmp = NoDoc
    /\ metadata_tmp = NoDoc
    /\ encoderCalls = <<>>

----------------------------------------------------------------------------
(* Command entry: every command first resolves its path arguments.          *)

\* files = parse_paths(paths), raising NoFileInput for an empty paths
Enter(c, t, v, s, scheme, b, next) ==
    /\ pc = "idle"
    /\ cmd' = c
    /\ tag' = t
    /\ value' = v
    /\ start' = s
    /\ naming_scheme' = scheme
    /\ bitrate' = b
    /\ IF args = <<>>
       THEN /\ pc' = "done"
            /\ exit_code' = "1"
            /\ err' = "NoFileInput"
            /\ files' = files
       ELSE /\ pc' = next
            /\ files' = parse_paths(args)
            /\ UNCHANGED <<exit_code, err>>
    /\ UNCHANGED <<args, tags0, tags, dur, idx, reported, failed, playhead, chapters,
                   genPasses, files_tmp, metadata_tmp, encoderCalls>>

number_files == \E s \in StartValues : Enter("number", "tracknumber", <<>>, s, <<>>, 0, "update")

chapter_number ==
    \E s \in StartValues, scheme \in Schemes :
        Enter("chapter-number", "title", <<>>, s, scheme, 0, "update")

change_title == Enter("change-title", "title", NewValue, 1, <<>>, 0, "update")

change_author == Enter("change-author", "author", NewValue, 1, <<>>, 0, "update")

change_narrator == Enter("change-narrator", "composer", NewValue, 1, <<>>, 0, "update")

change_tag == \E t \in UserTags : Enter("change-tag", t, NewValue, 1, <<>>, 0, "update")

combine_files == \E b \in Bitrates : Enter("combine-files", "", <<>>, 1, <<>>, b, "gen")

----------------------------------------------------------------------------
(* update_tag, called once per file by the loops of the tag commands        *)

SeqNumberFromOne(s, i) == i

\* enumerate(files, start=start): the number paired with 1-based position i
SeqNumber(s, i) == s + (i - 1)

\* the value the command passes to update_tag at the current position
CurrentValue ==
    CASE cmd = "number" -> IntToStr(SeqNumber(start, idx))
      [] cmd = "chapter-number" ->
            Replace(naming_scheme, <<37, 110>>, IntToStr(SeqNumber(start, idx)))
      [] OTHER -> value

InLoop == pc = "update" /\ idx <= Len(files)

Abort(kind) ==
    /\ pc' = "done"
    /\ exit_code' = "1"
    /\ err' = kind

OpenedContainerFresh(file) == EmptyDict

\* id3 = EasyID3(file), or EasyID3() when the file has no ID3 header
OpenedContainer(file) == IF NoHeader(file) THEN EmptyDict ELSE tags[file]

\* the container opens (or has no header and a new one is made), the key is
\* set and the container is saved
UpdateTagWritten ==
    /\ InLoop
    /\ LET file == files[idx]
       IN tags' = [tags EXCEPT ![file] = SetItem(OpenedContainer(file), tag, CurrentValue)]
    /\ idx' = idx + 1
    /\ UNCHANGED <<args, tags0, dur, cmd, tag, value, start, naming_scheme, bitrate, files,
                   pc, exit_code, err, reported, failed, playhead, chapters, genPasses,
                   files_tmp, metadata_tmp, encoderCalls>>

\* EasyID3(file) raises something other than ID3NoHeaderError: print, return
UpdateTagOpenError ==
    /\ InLoop
    /\ reported' = reported \cup {files[idx]}
    /\ failed' = failed \cup {files[idx]}
    /\ idx' = idx + 1
    /\ UNCHANGED <<args, tags0, tags, dur, cmd, tag, value, start, naming_scheme, bitrate,
                   files, pc, exit_code, err, playhead, chapters, genPasses, files_tmp,
                   metadata_tmp, encoderCalls>>

\* id3[tag] = value or id3.save(file) raises: nothing catches it
UpdateTagWriteError ==
    /\ InLoop
    /\ failed' = failed \cup {files[idx]}
    /\ Abort("WriteError")
    /\ UNCHANGED <<args, tags0, tags, dur, cmd, tag, value, start, naming_scheme, bitrate,
                   files, idx, reported, playhead, chapters, genPasses, files_tmp,
                   metadata_tmp, encoderCalls>>

\* the loop over files is exhausted and the command returns
UpdateDone ==
    /\ pc = "update"
    /\ idx > Len(files)
    /\ pc' = "done"
    /\ exit_code' = "0"
    /\ UNCHANGED <<args, tags0, tags, dur, cmd, tag, value, start, naming_scheme, bitrate,
                   files, idx, err, reported, failed, playhead, chapters, genPasses,
                   files_tmp, metadata_tmp, encoderCalls>>

----------------------------------------------------------------------------
(* generate_ffmetadata: one action per iteration of the loop over files.     *)
(* It runs twice in combine-files: called by combine_files itself, then by   *)
(* concatenate_audio inside the `with` block of the transient documents.     *)
(* The document is its fixed header followed by the chapter blocks; the      *)
(* model keeps the blocks.                                                   *)

InGen == pc = "gen" /\ idx <= Len(files)

ChapterEndNoOffset(offset, duration) == duration

\* end = playhead + duration
ChapterEnd(offset, duration) == offset + duration

\* MP3(file) and EasyID3(file) succeed and the title tag is there: the block
\* is appended and the playhead advances
GenChapter ==
    /\ InGen
    /\ LET file == files[idx] IN
         /\ ~NoHeader(file)
         /\ "title" \in DOMAIN tags[file]
         /\ \E duration \in Durations :
               /\ file \in DOMAIN dur => dur[file] = duration
               /\ dur' = SetItem(dur, file, duration)
               /\ chapters' = Append(chapters,
                                     [START |-> playhead,
                                      END |-> ChapterEnd(playhead, duration),
                                      title |-> tags[file]["title"]])
               /\ playhead' = ChapterEnd(playhead, duration)
    /\ idx' = idx + 1
    /\ UNCHANGED <<args, tags0, tags, cmd, tag, value, start, naming_scheme, bitrate, files,
                   pc, exit_code, err, reported, failed, genPasses, files_tmp, metadata_tmp,
                   encoderCalls>>

\* the error is printed and the loop goes on with the next file
GenOpenErrorSkips ==
    /\ InGen
    /\ reported' = reported \cup {files[idx]}
    /\ failed' = failed \cup {files[idx]}
    /\ idx' = idx + 1
    /\ UNCHANGED <<args, tags0, tags, dur, cmd, tag, value, start, naming_scheme, bitrate,
                   files, pc, exit_code, err, playhead, chapters, genPasses, files_tmp,
                   metadata_tmp, encoderCalls>>

\* MP3(file) or EasyID3(file) raises (unreadable audio or tags, or no ID3
\* header at all): sys.exit with a message naming the file and the cause
GenOpenError ==
    /\ InGen
    /\ reported' = reported \cup {files[idx]}
    /\ failed' = failed \cup {files[idx]}
    /\ Abort("SystemExit")
    /\ files_tmp' = CloseDoc(files_tmp)
    /\ metadata_tmp' = CloseDoc(metadata_tmp)
    /\ UNCHANGED <<args, tags0, tags, dur, cmd, tag, value, start, naming_scheme, bitrate,
                   files, idx, playhead, chapters, genPasses, encoderCalls>>

\* the container opens but holds no title: id3["title"] raises KeyError
\* outside the try block, nothing catches it
GenNoTitle ==
    /\ InGen
    /\ ~NoHeader(files[idx])
    /\ "title" \notin DOMAIN tags[files[idx]]
    /\ failed' = failed \cup {files[idx]}
    /\ Abort("KeyError")
    /\ files_tmp' = CloseDoc(files_tmp)
    /\ metadata_tmp' = CloseDoc(metadata_tmp)
    /\ UNCHANGED <<args, tags0, tags, dur, cmd, tag, value, start, naming_scheme, bitrate,
                   files, idx, reported, playhead, chapters, genPasses, encoderCalls>>

\* combine_files: ffmetadata = generate_ffmetadata(files) returns
GenReturn ==
    /\ pc = "gen"
    /\ idx > Len(files)
    /\ genPasses = 0
    /\ genPasses' = 1
    /\ pc' = "concat"
    /\ UNCHANGED <<args, tags0, tags, dur, cmd, tag, value, start, naming_scheme, bitrate,
                   files, idx, exit_code, err, reported, failed, playhead, chapters,
                   files_tmp, metadata_tmp, encoderCalls>>

----------------------------------------------------------------------------
(* concatenate_audio *)

\* Path(file).resolve(): the path made absolute against the working directory "/"
Resolve(file) == <<47>> \o file

\* f"file '{...}'"
ManifestLine(file) == <<102, 105, 108, 101, 32, 39>> \o Resolve(file) \o <<39>>

file_tmp_linesReversed == [i \in DOMAIN files |-> ManifestLine(files[Len(files) + 1 - i])]

file_tmp_lines == [i \in DOMAIN files |-> ManifestLine(files[i])]

\* no bitrate given and no file: files[0] raises IndexError
ConcatIndexError ==
    /\ pc = "concat"
    /\ bitrate = 0
    /\ files = <<>>
    /\ Abort("IndexError")
    /\ UNCHANGED <<args, tags0, tags, dur, cmd, tag, value, start, naming_scheme, bitrate,
                   files, idx, reported, failed, playhead, chapters, genPasses, files_tmp,
                   metadata_tmp, encoderCalls>>

\* get_bitrate(files[0]) cannot read the file: sys.exit naming it
ConcatBitrateError ==
    /\ pc = "concat"
    /\ bitrate = 0
    /\ files # <<>>
    /\ reported' = reported \cup {files[1]}
    /\ failed' = failed \cup {files[1]}
    /\ Abort("SystemExit")
    /\ UNCHANGED <<args, tags0, tags, dur, cmd, tag, value, start, naming_scheme, bitrate,
                   files, idx, playhead, chapters, genPasses, files_tmp, metadata_tmp,
                   encoderCalls>>

\* the bitrate is given or read from the first file; both transient documents
\* are created, the manifest is written and flushed, and generate_ffmetadata
\* is called
ConcatOpenDocs ==
    /\ pc = "concat"
    /\ IF bitrate = 0
       THEN files # <<>> /\ bitrate' \in Bitrates \ {0}
       ELSE bitrate' = bitrate
    /\ files_tmp' = [status |-> "open", content |-> file_tmp_lines]
    /\ metadata_tmp' = [status |-> "open", content |-> <<>>]
    /\ pc' = "gen"
    /\ idx' = 1
    /\ playhead' = 0
    /\ chapters' = <<>>
    /\ UNCHANGED <<args, tags0, tags, dur, cmd, tag, value, start, naming_scheme, files,
                   exit_code, err, reported, failed, genPasses, encoderCalls>>

\* generate_ffmetadata returns inside concatenate_audio: the metadata
\* document is written and flushed
WriteMetadata ==
    /\ pc = "gen"
    /\ idx > Len(files)
    /\ genPasses = 1
    /\ genPasses' = 2
    /\ metadata_tmp' = [metadata_tmp EXCEPT !.content = chapters]
    /\ pc' = "encode"
    /\ UNCHANGED <<args, tags0, tags, dur, cmd, tag, value, start, naming_scheme, bitrate,
                   files, idx, exit_code, err, reported, failed, playhead, chapters,
                   files_tmp, encoderCalls>>

\* subprocess.run(command, check=True) on the two documents
Invocation == [manifest |-> files_tmp, metadata |-> metadata_tmp, bitrate |-> bitrate]

\* the encoder exits 0: the `with` block is left and the command returns
EncoderSucceeds ==
    /\ pc = "encode"
    /\ encoderCalls' = Append(encoderCalls, Invocation)
    /\ files_tmp' = CloseDoc(files_tmp)
    /\ metadata_tmp' = CloseDoc(metadata_tmp)
    /\ pc' = "done"
    /\ exit_code' = "0"
    /\ UNCHANGED <<args, tags0, tags, dur, cmd, tag, value, start, naming_scheme, bitrate,
                   files, idx, err, reported, failed, playhead, chapters, genPasses>>

\* the encoder exits non-zero: CalledProcessError leaves the `with` block
EncoderFails ==
    /\ pc = "encode"
    /\ encoderCalls' = Append(encoderCalls, Invocation)
    /\ files_tmp' = CloseDoc(files_tmp)
    /\ metadata_tmp' = CloseDoc(metadata_tmp)
    /\ Abort("CalledProcessError")
    /\ UNCHANGED <<args, tags0, tags, dur, cmd, tag, value, start, naming_scheme, bitrate,
                   files, idx, reported, failed, playhead, chapters, genPasses>>

----------------------------------------------------------------------------

Next ==
    \/ number_files
    \/ chapter_number
    \/ change_title
    \/ change_author
    \/ change_narrator
    \/ change_tag
    \/ combine_files
    \/ UpdateTagWritten
    \/ UpdateTagOpenError
    \/ UpdateTagWriteError
    \/ UpdateDone
    \/ GenChapter
    \/ GenOpenError
    \/ GenNoTitle
    \/ GenReturn
    \/ ConcatIndexError
    \/ ConcatBitrateError
    \/ ConcatOpenDocs
    \/ WriteMetadata
    \/ EncoderSucceeds
    \/ EncoderFails

Spec == Init /\ [][Next]_vars

----------------------------------------------------------------------------
(* Vocabulary of the properties *)

\* what one path argument stands for: its glob matches, or itself
Expansion(arg) == IF HasWildcard(arg) THEN {f \in Files : Match(arg, f)} ELSE {arg}

\* parse_paths has returned: `files` is its result
Resolved == cmd # "none" /\ args # <<>>

StrictlyAscending(list) ==
    \A i, j \in DOMAIN list : i < j => LexLess(list[i], list[j])

HasTag(file, key, val) == key \in DOMAIN tags[file] /\ tags[file][key] = val

\* every tag of the file other than `key` is as it was before the command
OthersKept(file, key) ==
    /\ DOMAIN tags[file] \ {key} = DOMAIN tags0[file] \ {key}
    /\ \A k \in DOMAIN tags0[file] \ {key} : tags[file][k] = tags0[file][k]

NumberCmds == {"number", "chapter-number"}
ChangeCmds == {"change-title", "change-author", "change-narrator", "change-tag"}

Finished == pc = "done" /\ exit_code = "0"

\* the value the file at 1-based position i of the sorted list is to receive:
\* its 0-based position is the number of resolved files that sort before it
ExpectedNumber(i) ==
    start + Cardinality({g \in ListToSet(files) : LexLess(g, files[i])})

ExpectedValue(i) ==
    IF cmd = "number" THEN IntToStr(ExpectedNumber(i))
    ELSE Replace(naming_scheme, <<37, 110>>, IntToStr(ExpectedNumber(i)))

ExpectedKey ==
    CASE cmd = "change-title" -> "title"
      [] cmd = "change-author" -> "author"
      [] cmd = "change-narrator" -> "composer"
      [] OTHER -> tag

\* generate_ffmetadata ended at files[idx] without returning
GenFailed == pc = "done" /\ err \in {"SystemExit", "KeyError"} /\ idx <= Len(files)

RECURSIVE SumDur(_)
\* the sum of the durations of the first n files of the list
SumDur(n) == IF n = 0 THEN 0 ELSE SumDur(n - 1) + dur[files[n]]

----------------------------------------------------------------------------
(* C1: for every non-empty argument list the list parse_paths returns is     *)
(* lexicographically sorted, has no duplicates, and its elements are exactly *)
(* the union over the arguments of each argument's expansion.                *)
C1_SortedUnion ==
    Resolved =>
        /\ StrictlyAscending(files)
        /\ Cardinality(ListToSet(files)) = Len(files)
        /\ ListToSet(files) = UNION {Expansion(args[k]) : k \in DOMAIN args}

\* two arguments with overlapping, different expansions resolve to three files
C1_Witness ==
    /\ Resolved
    /\ Len(files) = 3
    /\ \E i, j \in DOMAIN args :
          /\ Expansion(args[i]) \cap Expansion(args[j]) # {}
          /\ Expansion(args[i]) # Expansion(args[j])

(* C2: after every iteration of generate_ffmetadata and at its end, the      *)
(* first chapter starts at 0, every chapter ends at its start plus the       *)
(* duration of its file, every chapter starts where the previous one ends,   *)
(* and the playhead is the sum of the durations of the files seen.           *)
C2_Contiguous ==
    /\ Len(chapters) <= Len(files)
    /\ \A i \in DOMAIN chapters :
          /\ chapters[i].START = IF i = 1 THEN 0 ELSE chapters[i - 1].END
          /\ chapters[i].END = chapters[i].START + dur[files[i]]
    /\ playhead = SumDur(Len(chapters))
    /\ pc \in {"concat", "encode"} => Len(chapters) = Len(files)

\* a complete chapter list over three files of different durations
C2_Witness ==
    /\ pc = "concat"
    /\ Len(chapters) = 3
    /\ dur[files[1]] # dur[files[2]]
    /\ chapters[3].END = playhead

(* C3 as stated: after number / chapter-number has returned, the file at     *)
(* every position i of the sorted resolved list holds start + i (0-based)    *)
(* as tracknumber, or the naming scheme with %n replaced by it as title.     *)
C3_Original ==
    (cmd \in NumberCmds /\ Finished) =>
        \A i \in DOMAIN files : HasTag(files[i], tag, ExpectedValue(i))

(* C3 amended: every file whose container opened (or had no header) and was  *)
(* saved holds the value of its sorted position; every other file, skipped   *)
(* on an open error or not reached, holds its old tags; a command that       *)
(* returns has gone through every position.                                  *)
C3_Numbered ==
    cmd \in NumberCmds =>
        /\ tag = (IF cmd = "number" THEN "tracknumber" ELSE "title")
        /\ \A i \in DOMAIN files :
              IF i < idx /\ files[i] \notin failed
              THEN HasTag(files[i], tag, ExpectedValue(i)) /\ OthersKept(files[i], tag)
              ELSE tags[files[i]] = tags0[files[i]]
        /\ Finished => idx = Len(files) + 1

\* number --start 9 over three files given out of order, the second skipped
C3_Witness ==
    /\ cmd = "number"
    /\ Finished
    /\ start = 9
    /\ Len(files) = 3
    /\ Len(args) = 2 /\ LexLess(args[2], args[1])
    /\ files[2] \in failed
    /\ HasTag(files[3], "tracknumber", <<49, 49>>)

(* C4 as stated: after a change-* command has returned, every resolved file  *)
(* holds the value under the command's key and its other tags are as before. *)
C4_Original ==
    (cmd \in ChangeCmds /\ Finished) =>
        \A f \in ListToSet(files) : HasTag(f, ExpectedKey, value) /\ OthersKept(f, ExpectedKey)

(* C4 amended: after a change-* command has returned, every resolved file    *)
(* whose container opened (or had no header) holds the value under the       *)
(* command's key with its other tags as before; a file skipped on an open    *)
(* error, and every file that is not resolved, holds all its old tags.       *)
C4_Changed ==
    (cmd \in ChangeCmds /\ Finished) =>
        \A f \in Files :
            IF f \in ListToSet(files) /\ f \notin failed
            THEN HasTag(f, ExpectedKey, value) /\ OthersKept(f, ExpectedKey)
            ELSE tags[f] = tags0[f]

\* change-tag has written a file that had a title and skipped another file
C4_Witness ==
    /\ cmd = "change-tag"
    /\ Finished
    /\ \E f, g \in ListToSet(files) :
          /\ f \notin failed
          /\ "title" \in DOMAIN tags0[f]
          /\ g \in failed

(* C5: in a batch tag command a per-file tag I/O error (open, set or save)   *)
(* is reported with the file, and never aborts the batch: every file of the  *)
(* list is gone through and the exit status is success.                      *)
C5_BatchNeverAborts ==
    (cmd \in NumberCmds \cup ChangeCmds /\ pc = "done" /\ err # "NoFileInput") =>
        /\ exit_code = "0"
        /\ idx = Len(files) + 1
        /\ failed \subseteq reported

(* C6: when chapter generation fails at a file (no title tag, unreadable     *)
(* duration or tags), the operation ends at once with a fatal error naming   *)
(* that file; there is no chapter for that file or a later one and no        *)
(* metadata document.                                                        *)
C6_GenFailureNamesFile ==
    GenFailed =>
        /\ exit_code = "1"
        /\ files[idx] \in reported
        /\ Len(chapters) = idx - 1
        /\ metadata_tmp.content = <<>>
        /\ encoderCalls = <<>>

(* C7: a command whose arguments are empty or resolve to no file ends in a   *)
(* fatal error before any work: no file is opened, no tag written, no        *)
(* transient document created, the encoder not invoked.                      *)
C7_NoPathsFatal ==
    (cmd # "none" /\ files = <<>>) =>
        /\ pc = "done" => exit_code = "1"
        /\ tags = tags0
        /\ failed = {}
        /\ files_tmp.status = "absent"
        /\ metadata_tmp.status = "absent"
        /\ encoderCalls = <<>>

(* C8: the transient documents exist only inside concatenate_audio; once the *)
(* call has exited (normally, by a failing chapter generation, or by a       *)
(* failing encoder) both documents it created are deleted.                   *)
C8_TempDocsRemoved ==
    /\ files_tmp.status = metadata_tmp.status
    /\ files_tmp.status = "open" => pc \in {"gen", "encode"} /\ genPasses >= 1
    /\ pc = "done" => files_tmp.status # "open"
    /\ (encoderCalls # <<>> \/ (GenFailed /\ genPasses = 1)) =>
          files_tmp.status = "deleted" /\ metadata_tmp.status = "deleted"

\* the encoder has failed on documents that were written, and they are gone
C8_Witness ==
    /\ pc = "done"
    /\ err = "CalledProcessError"
    /\ Len(files_tmp.content) = 3
    /\ files_tmp.status = "deleted"
    /\ metadata_tmp.status = "deleted"

(* C9 as stated: when exactly one argument has a wildcard, the result is the *)
(* expansion of that argument alone.                                         *)
C9_Original ==
    (Resolved /\ Cardinality(WildcardEntries(args)) = 1) =>
        \A w \in WildcardEntries(args) : ListToSet(files) = Expansion(args[w])

(* C9 amended: when the argument list is one argument with a wildcard, the   *)
(* result is the sorted expansion of that argument; when exactly one of      *)
(* several arguments has a wildcard, the result is its expansion united with *)
(* the literal arguments given alongside it.                                 *)
C9_SinglePattern ==
    (Resolved /\ Cardinality(WildcardEntries(args)) = 1) =>
        \A w \in WildcardEntries(args) :
            /\ StrictlyAscending(files)
            /\ ListToSet(files) =
                  Expansion(args[w]) \cup {args[k] : k \in DOMAIN args \ {w}}

\* a pattern and a literal path outside its expansion resolve to three files
C9_Witness ==
    /\ Resolved
    /\ Len(args) = 2
    /\ Len(files) = 3
    /\ \E w, k \in DOMAIN args :
          /\ WildcardEntries(args) = {w}
          /\ k # w
          /\ args[k] \notin Expansion(args[w])

(* C10: combine-files invokes the encoder at most once, and only after the   *)
(* chapter metadata of every input file was generated and both documents     *)
(* were written; a run whose chapter generation fails never invokes it.      *)
C10_EncoderAfterMetadata ==
    /\ Len(encoderCalls) <= 1
    /\ encoderCalls # <<>> =>
          /\ cmd = "combine-files"
          /\ genPasses = 2
          /\ failed = {}
          /\ encoderCalls[1].manifest.status = "open"
          /\ encoderCalls[1].metadata.status = "open"
          /\ Len(encoderCalls[1].manifest.content) = Len(files)
          /\ Len(encoderCalls[1].metadata.content) = Len(files)
    /\ GenFailed => encoderCalls = <<>>
    /\ failed # {} => encoderCalls = <<>>

\* the encoder has run once on the documents of three files
C10_Witness ==
    /\ Finished
    /\ Len(encoderCalls) = 1
    /\ Len(encoderCalls[1].metadata.content) = 3

\* the file a manifest line names: the path between "file '/" and "'"
NamedFile(line) == SubSeq(line, 8, Len(line) - 1)

(* C11: whenever the encoder is invoked, the manifest has one line per input *)
(* file and the metadata document one chapter block per input file, in the   *)
(* order of the file list, and the i-th chapter block carries the title and  *)
(* the duration of the file named on the i-th manifest line.                 *)
C11_ManifestMetadataAligned ==
    \A c \in DOMAIN encoderCalls :
        LET lines == encoderCalls[c].manifest.content
            blocks == encoderCalls[c].metadata.content
        IN /\ Len(lines) = Len(files)
           /\ Len(blocks) = Len(files)
           /\ \A i \in DOMAIN lines :
                 /\ StartsWith(lines[i], <<102, 105, 108, 101, 32, 39, 47>>)
                 /\ NamedFile(lines[i]) = files[i]
                 /\ blocks[i].title = tags[NamedFile(lines[i])]["title"]
                 /\ blocks[i].END - blocks[i].START = dur[NamedFile(lines[i])]

\* the encoder has run on three files whose titles and durations differ
C11_Witness ==
    /\ Len(encoderCalls) = 1
    /\ Len(files) = 3
    /\ tags[files[1]]["title"] # tags[files[3]]["title"]
    /\ dur[files[1]] # dur[files[3]]
    /\ encoderCalls[1].metadata.content[1].title = tags[files[1]]["title"]

====
